---- MODULE Spec2Model ----
(***************************************************************************)
(* Model of the unsubscribe e-mail workflow: the per-message pipeline      *)
(* (EmailWorker.process_email and the /inbound-email handler), the Brevo   *)
(* suppression call, the action log, and the polling worker with its       *)
(* scheduler and control endpoints.                                        *)
(*                                                                         *)
(* The service runs on one asyncio event loop.  A coroutine gives up the   *)
(* loop only where an await really suspends: the LLM call in               *)
(* detect_intent and asyncio.sleep(1) between two messages of a batch.     *)
(* The mailbox, Brevo, SMTP and database calls are blocking calls, so the  *)
(* code between two suspension points is one action here.                  *)
(***************************************************************************)
EXTENDS Integers, Sequences, FiniteSets, TLC

\* ---------------------------------------------------------------- bounds
\* The inputs of one behaviour: messages arriving in the mailbox,
\* /inbound-email requests and check_emails invocations, taken together.
MaxEvents == 2

\* The longest message text, in words, given to the classifier on its own.
MaxWords == 3

\* config.py: the default of imap_check_interval, in seconds.
imap_check_interval == 3600

Addrs == {"a1"}
Null == "null"      \* Python None / a missing dict key read with .get()

Runs == 1..MaxEvents
Reqs == 1..MaxEvents

\* A message text is a sequence of words separated by single blanks.  No word
\* of this alphabet contains another one, so a keyword occurs in the text as
\* a substring exactly when its words occur in it as consecutive words.
Words == {"unsubscribe", "UNSUBSCRIBE", "opt", "Opt", "out", "OUT", "hello", "me"}

\* str.lower() on one word.
Lower(w) ==
    CASE w = "UNSUBSCRIBE" -> "unsubscribe"
      [] w = "Opt" -> "opt"
      [] w = "OUT" -> "out"
      [] OTHER -> w

Texts == UNION {[1..n -> Words] : n \in 0..MaxWords}

\* The bodies of the messages that reach the mailbox and the webhook.
MailTexts == {<<"hello">>, <<"Opt", "OUT">>}

\* An inbound message: the sender, the body text, whether the transport gave
\* it a message identifier.
Messages == [sender : Addrs, message_text : MailTexts, has_id : BOOLEAN]

\* What the LLM call can give: an exception (a failed or timed-out call),
\* text that json.loads rejects, JSON that is no object, or a JSON object.
\* In an object, has_unsubscribe_intent is true, false, absent, a string that
\* pydantic reads as a bool ("yes"), or a value it rejects; confidence is one
\* of the three levels, absent, another string, or no string at all.
LLMResults ==
    [kind : {"error", "nonjson", "nonobject"}, hi : {Null}, conf : {Null}]
    \cup [kind : {"json"},
          hi : {"true", "false", "missing", "yes", "invalid"},
          conf : {"high", "medium", "low", "missing", "other", "wrongtype"}]

\* The results the LLM call gives inside the pipelines: one of each kind.
LLMResponses ==
    {[kind |-> "error", hi |-> Null, conf |-> Null],
     [kind |-> "nonjson", hi |-> Null, conf |-> Null],
     [kind |-> "json", hi |-> "true", conf |-> "high"],
     [kind |-> "json", hi |-> "false", conf |-> "low"],
     [kind |-> "json", hi |-> "missing", conf |-> "missing"],
     [kind |-> "json", hi |-> "invalid", conf |-> "high"]}

\* What the Brevo backend can do to one unsubscribe_contact call.
Faults == {"none", "lookup", "write"}

VARIABLES
    settings,      \* imap_enabled, use_graph_api (with provider outlook),
                   \* send_confirmation_email, imap_check_interval
    is_running,    \* EmailWorker.is_running
    scheduler,     \* AsyncIOScheduler: running flag, number of jobs
                   \* 'email_check_job' and the interval of its trigger
    unread,        \* unread messages of the mailbox, in fetch order
    arrived,       \* number of messages that arrived so far
    runs,          \* check_emails invocations
    nruns,         \* number of check_emails invocations so far
    reqs,          \* /inbound-email requests
    nreqs,         \* number of /inbound-email requests so far
    contacts,      \* Brevo: addresses that exist as a contact
    blacklisted,   \* Brevo: contacts with emailBlacklisted
    createCount,   \* Brevo: successful create_contact calls per address
    lastTwo,       \* the actions of the last two unsubscribe_contact calls per address
    log,           \* table unsubscribe_logs, in write order
    lastOp,        \* the last worker-control call and what it did
    intent_call,   \* one call of detect_intent on its own: text, LLM result, decision
    now,           \* the clock that datetime.utcnow() reads
    db_call,       \* the last call of the action log on its own and its result
    fetch_call,    \* the last fetch_unread_emails call on its own and its result
    brevo_call     \* the last unsubscribe_contact call on its own and its result

vars == <<brevo_call, fetch_call, now, db_call, intent_call, settings, is_running, scheduler, unread, arrived, runs, nruns, reqs,
          nreqs, contacts, blacklisted, createCount, lastTwo, log, lastOp>>

\* The inputs taken so far.
Events == arrived + nruns + nreqs

\* ------------------------------------------------------ intent detection
\* Lines 134-138, as word sequences.
unsubscribe_keywords ==
    {<<"unsubscribe">>, <<"remove", "me">>, <<"stop", "emails">>,
     <<"stop", "sending">>, <<"take", "me", "off">>, <<"opt", "out">>,
     <<"cancel", "subscription">>, <<"no", "longer", "interested">>,
     <<"don't", "want", "to", "receive">>, <<"don't", "send">>,
     <<"stop", "contacting">>}

\* Python's  keyword in text.
In(keyword, text) ==
    \E i \in 0..(Len(text) - Len(keyword)) :
        SubSeq(text, i + 1, i + Len(keyword)) = keyword

_fallback_detection_CaseSensitive(message_text) ==
    LET has_intent == \E keyword \in unsubscribe_keywords : In(keyword, message_text)
    IN  [has_unsubscribe_intent |-> has_intent,
         confidence |-> IF has_intent THEN "medium" ELSE "low",
         reasoning |-> "fallback"]

_fallback_detection(message_text) ==
    LET message_lower == [i \in 1..Len(message_text) |-> Lower(message_text[i])]
        has_intent == \E keyword \in unsubscribe_keywords : In(keyword, message_lower)
    IN  [has_unsubscribe_intent |-> has_intent,
         confidence |-> IF has_intent THEN "medium" ELSE "low",
         reasoning |-> "fallback"]

\* What escapes a call that raises.
Raised == [has_unsubscribe_intent |-> Null, confidence |-> Null,
           reasoning |-> "raised"]

detect_intent_NoCatchAll(message_text, resp) ==
    IF resp.kind = "nonjson" THEN _fallback_detection(message_text)
    ELSE IF resp.kind # "json" THEN Raised
    ELSE IF resp.hi = "invalid" \/ resp.conf = "wrongtype" THEN Raised
    ELSE [has_unsubscribe_intent |-> (resp.hi \in {"true", "yes"}),
          confidence |-> IF resp.conf = "missing" THEN "low" ELSE resp.conf,
          reasoning |-> "llm"]

\* Lines 92-130.  json.loads raises JSONDecodeError on text that is no JSON;
\* .get on JSON that is no object and the validation of the response model
\* raise other exceptions; all end in the keyword fallback.  A confidence
\* string is taken as it is: the field is declared str.
detect_intent(message_text, resp) ==
    IF resp.kind # "json" THEN _fallback_detection(message_text)
    ELSE IF resp.hi = "invalid" \/ resp.conf = "wrongtype"
         THEN _fallback_detection(message_text)
    ELSE [has_unsubscribe_intent |-> (resp.hi \in {"true", "yes"}),
          confidence |-> IF resp.conf = "missing" THEN "low" ELSE resp.conf,
          reasoning |-> "llm"]

\* Lines 105-115: the text of the LLM result as a sequence of characters.
\* A blank, a character of other text, the braces, and "t" for the members
\* "has_unsubscribe_intent": true, "confidence": "high" of an object.
RawChars == {" ", "x", "{", "t", "}"}

RECURSIVE lstrip(_)
\* str.strip(), the leading blanks.
lstrip(s) == IF s # <<>> /\ Head(s) = " " THEN lstrip(Tail(s)) ELSE s

RECURSIVE rstrip(_)
\* str.strip(), the trailing blanks.
rstrip(s) ==
    IF s # <<>> /\ s[Len(s)] = " " THEN rstrip(SubSeq(s, 1, Len(s) - 1)) ELSE s

\* str.strip().
strip(s) == rstrip(lstrip(s))

\* str.find(c): the index from 0 of the first c, or -1.
find(s, c) ==
    IF \E i \in 1..Len(s) : s[i] = c
      THEN (CHOOSE i \in 1..Len(s) : s[i] = c /\ \A j \in 1..(i - 1) : s[j] # c) - 1
      ELSE -1

\* str.rfind(c): the index from 0 of the last c, or -1.
rfind(s, c) ==
    IF \E i \in 1..Len(s) : s[i] = c
      THEN (CHOOSE i \in 1..Len(s) : s[i] = c /\ \A j \in (i + 1)..Len(s) : s[j] # c) - 1
      ELSE -1

\* Lines 106-113: the text that is handed to json.loads.  The object is cut
\* out only from text that does not start with its opening brace.
result_cleaned(result_text) ==
    LET stripped == strip(result_text)
        start_idx == find(stripped, "{")
        end_idx == rfind(stripped, "}")
    IN  IF stripped # <<>> /\ Head(stripped) = "{" THEN stripped
        ELSE IF start_idx # -1 /\ end_idx # -1
               THEN SubSeq(stripped, start_idx + 1, end_idx + 1)
               ELSE stripped

\* Line 115: json.loads skips blanks around and inside the object; any
\* other character outside it makes it raise JSONDecodeError.
json_loads(text) ==
    LET tokens == SelectSeq(text, LAMBDA c : c # " ")
    IN  IF tokens = <<"{", "t", "}">>
          THEN [kind |-> "json", hi |-> "true", conf |-> "high"]
        ELSE IF tokens = <<"{", "}">>
          THEN [kind |-> "json", hi |-> "missing", conf |-> "missing"]
        ELSE [kind |-> "nonjson", hi |-> Null, conf |-> Null]

\* ------------------------------------------------------------ suppression
NoCall == [called |-> FALSE, success |-> FALSE, action |-> Null,
           message |-> Null, effect |-> "none"]

BrevoFailed_NoMessage == [called |-> TRUE, success |-> FALSE, action |-> Null,
                          message |-> Null, effect |-> "none"]

\* Lines 63-80: both except branches return success False and a message.
BrevoFailed == [called |-> TRUE, success |-> FALSE, action |-> Null,
                message |-> "api_error", effect |-> "none"]

unsubscribe_contact_NoLookup(contact_exists, fault) ==
    IF fault = "lookup" THEN BrevoFailed
    ELSE IF fault = "write" THEN BrevoFailed
    ELSE [called |-> TRUE, success |-> TRUE, action |-> "created",
          message |-> "created_and_blacklisted", effect |-> "create"]

unsubscribe_contact_LookupErrorAsNotFound(contact_exists, fault) ==
    IF contact_exists /\ fault # "lookup"
      THEN IF fault = "write" THEN BrevoFailed
           ELSE [called |-> TRUE, success |-> TRUE, action |-> "updated",
                 message |-> "blacklisted", effect |-> "update"]
      ELSE IF fault = "write" THEN BrevoFailed
           ELSE [called |-> TRUE, success |-> TRUE, action |-> "created",
                 message |-> "created_and_blacklisted", effect |-> "create"]

unsubscribe_contact(contact_exists, fault) ==
    IF fault = "lookup" THEN BrevoFailed
    ELSE IF contact_exists
         THEN IF fault = "write" THEN BrevoFailed
              ELSE [called |-> TRUE, success |-> TRUE, action |-> "updated",
                    message |-> "blacklisted", effect |-> "update"]
         ELSE IF fault = "write" THEN BrevoFailed
              ELSE [called |-> TRUE, success |-> TRUE, action |-> "created",
                    message |-> "created_and_blacklisted", effect |-> "create"]

\* History label of one call: the outcome's action when success is True, and
\* "failed" for an outcome with success False (which itself carries no action).
Shown(brevo) == IF brevo.success THEN brevo.action ELSE "failed"

\* The Brevo state and the call history after one unsubscribe_contact call.
BrevoEffect(addr, brevo) ==
    /\ contacts' = IF brevo.effect = "create" THEN contacts \cup {addr} ELSE contacts
    /\ blacklisted' = IF brevo.effect \in {"create", "update"}
                        THEN blacklisted \cup {addr} ELSE blacklisted
    /\ createCount' = IF brevo.effect = "create"
                        THEN [createCount EXCEPT ![addr] = @ + 1] ELSE createCount
    /\ lastTwo' = IF brevo.called
                    THEN [lastTwo EXCEPT ![addr] = <<@[2], Shown(brevo)>>] ELSE lastTwo


\* ------------------------------------------------------------- action log
\* DatabaseService.log_unsubscribe_action: the row that is inserted.
log_unsubscribe_action(email, intent_detected, brevo_success, intent_confidence, brevo_action, brevo_message, source) ==
    [email |-> email, intent_detected |-> intent_detected,
     intent_confidence |-> intent_confidence, brevo_success |-> brevo_success,
     brevo_action |-> brevo_action, brevo_message |-> brevo_message,
     source |-> source]

\* --------------------------------------------------- the worker pipeline
\* The result dict of process_email, with the message it was called for,
\* the steps taken, in order, the number of log_unsubscribe_action calls made
\* and whether the row was stored.
NoMessage == [sender |-> Null, message_text |-> <<>>, has_id |-> FALSE]

NoResult == [email_data |-> NoMessage,
             unsubscribe_intent_detected |-> FALSE, confidence |-> Null,
             unsubscribed_from_brevo |-> FALSE, reply_sent |-> FALSE,
             error |-> FALSE, brevo_details |-> NoCall,
             steps |-> <<>>, appends |-> 0, logged |-> FALSE]

WorkerSuppresses_Always(intent_result) == TRUE

\* Line 86: the suppression sink is called only for a detected intent.
WorkerSuppresses(intent_result) == intent_result.has_unsubscribe_intent

\* Lines 93-113: the worker replies after every successful suppression.
WorkerReplies(brevo_result) == brevo_result.success

\* Lines 26-33, 42, 99-113: the transport of the reply.  With the Graph
\* source email_sender is None, and a message without identifier takes the
\* SMTP branch, which then raises AttributeError.
WorkerReplyTransport(msg) ==
    IF settings.use_graph_api /\ msg.has_id THEN "graph"
    ELSE IF settings.use_graph_api THEN "raise" ELSE "smtp"

process_email_LogUncaught(msg, resp, fault, replyOK, dbOK) ==
    LET intent_result == detect_intent(msg.message_text, resp)
        existed == msg.sender \in contacts
        brevo_result == IF WorkerSuppresses(intent_result)
                          THEN unsubscribe_contact(existed, fault) ELSE NoCall
        replies == brevo_result.called /\ WorkerReplies(brevo_result)
        transport == WorkerReplyTransport(msg)
        raised == (replies /\ transport = "raise") \/ ~dbOK
        reply_sent == replies /\ ~raised /\ replyOK
        row == log_unsubscribe_action(msg.sender,
                   intent_result.has_unsubscribe_intent,
                   brevo_result.called /\ brevo_result.success,
                   intent_result.confidence,
                   IF brevo_result.called THEN brevo_result.action ELSE Null,
                   IF brevo_result.called THEN brevo_result.message ELSE Null,
                   "worker")
    IN  [result |->
            [email_data |-> msg,
             unsubscribe_intent_detected |-> intent_result.has_unsubscribe_intent,
             confidence |-> intent_result.confidence,
             unsubscribed_from_brevo |-> brevo_result.called /\ brevo_result.success,
             reply_sent |-> reply_sent,
             error |-> raised,
             brevo_details |-> brevo_result,
             steps |-> <<"classify">>
                       \o (IF brevo_result.called THEN <<"suppress">> ELSE <<>>)
                       \o (IF replies THEN <<"reply">> ELSE <<>>)
                       \o (IF raised THEN <<>> ELSE <<"log">>),
             appends |-> IF raised THEN 0 ELSE 1,
             logged |-> ~raised /\ dbOK],
         brevo |-> brevo_result,
         rows |-> IF raised \/ ~dbOK THEN <<>> ELSE <<row>>]

\* EmailWorker.process_email from the return of the LLM call to its own
\* return: what it returns, the steps it took in order, the row it wrote.
process_email(msg, resp, fault, replyOK, dbOK) ==
    LET intent_result == detect_intent(msg.message_text, resp)
        existed == msg.sender \in contacts
        brevo_result == IF WorkerSuppresses(intent_result)
                          THEN unsubscribe_contact(existed, fault) ELSE NoCall
        replies == brevo_result.called /\ WorkerReplies(brevo_result)
        transport == WorkerReplyTransport(msg)
        raised == replies /\ transport = "raise"
        reply_sent == replies /\ ~raised /\ replyOK
        row == log_unsubscribe_action(msg.sender,
                   intent_result.has_unsubscribe_intent,
                   brevo_result.called /\ brevo_result.success,
                   intent_result.confidence,
                   IF brevo_result.called THEN brevo_result.action ELSE Null,
                   IF brevo_result.called THEN brevo_result.message ELSE Null,
                   "worker")
    IN  [result |->
            [email_data |-> msg,
             unsubscribe_intent_detected |-> intent_result.has_unsubscribe_intent,
             confidence |-> intent_result.confidence,
             unsubscribed_from_brevo |-> brevo_result.called /\ brevo_result.success,
             reply_sent |-> reply_sent,
             error |-> raised,
             brevo_details |-> brevo_result,
             steps |-> <<"classify">>
                       \o (IF brevo_result.called THEN <<"suppress">> ELSE <<>>)
                       \o (IF replies THEN <<"reply">> ELSE <<>>)
                       \o (IF raised THEN <<>> ELSE <<"log">>),
             appends |-> IF raised THEN 0 ELSE 1,
             logged |-> ~raised /\ dbOK],
         brevo |-> brevo_result,
         rows |-> IF raised \/ ~dbOK THEN <<>> ELSE <<row>>]

\* -------------------------------------------------- the webhook pipeline
\* The response of the handler (status 200 with the UnsubscribeResponse
\* fields, or 500), with what the classifier and the sink returned, the steps
\* taken, in order, the number of log_unsubscribe_action calls made and
\* whether the row was stored.
NoResponse == [status |-> Null, unsubscribe_intent_detected |-> FALSE,
               unsubscribed_from_brevo |-> FALSE,
               decided |-> FALSE, brevo |-> NoCall,
               steps |-> <<>>, appends |-> 0, logged |-> FALSE]

WebhookSuppresses_Always(intent_result) == TRUE

\* main.py line 141.
WebhookSuppresses(intent_result) == intent_result.has_unsubscribe_intent

\* main.py lines 148-152: a reply needs a successful suppression and the toggle.
WebhookReplies(brevo_result) ==
    brevo_result.success /\ settings.send_confirmation_email

\* main.py lines 151 and 214: reply_sent is assigned only in the branch of a
\* successful suppression and is read when the response is built.
ReplySentBound(brevo_result) == brevo_result.called /\ brevo_result.success

\* process_inbound_email from the return of the LLM call to the response.
process_inbound_email(msg, resp, fault, replyOK, dbOK) ==
    LET intent_result == detect_intent(msg.message_text, resp)
        existed == msg.sender \in contacts
        brevo_result == IF WebhookSuppresses(intent_result)
                          THEN unsubscribe_contact(existed, fault) ELSE NoCall
        replies == brevo_result.called /\ WebhookReplies(brevo_result)
        row == log_unsubscribe_action(msg.sender,
                   intent_result.has_unsubscribe_intent,
                   brevo_result.called /\ brevo_result.success,
                   intent_result.confidence,
                   IF brevo_result.called THEN brevo_result.action ELSE Null,
                   IF brevo_result.called THEN brevo_result.message ELSE Null,
                   "webhook")
    IN  [response |->
            [status |-> IF ReplySentBound(brevo_result) THEN "200" ELSE "500",
             unsubscribe_intent_detected |-> intent_result.has_unsubscribe_intent,
             unsubscribed_from_brevo |-> brevo_result.called /\ brevo_result.success,
             decided |-> intent_result.has_unsubscribe_intent,
             brevo |-> brevo_result,
             steps |-> <<"classify">>
                       \o (IF brevo_result.called THEN <<"suppress">> ELSE <<>>)
                       \o (IF replies THEN <<"reply">> ELSE <<>>)
                       \o <<"log">>,
             appends |-> 1,
             logged |-> dbOK],
         brevo |-> brevo_result,
         rows |-> IF dbOK THEN <<row>> ELSE <<>>]


\* ------------------------------------------------------------ the worker
IdleRun == [pc |-> "idle", origin |-> Null, emails |-> <<>>, idx |-> 0,
            result |-> NoResult]

IdleReq == [pc |-> "idle", msg |-> Null, response |-> NoResponse]

NoOp == [op |-> Null, pre_running |-> FALSE, conn |-> Null, began |-> FALSE, fetch |-> Null]

\* A job instance that the shutdown of the scheduler has cancelled.
CancelledRun == [pc |-> "cancelled", origin |-> Null, emails |-> <<>>, idx |-> 0,
                 result |-> NoResult]

InFlight(r) == runs[r].pc \in {"classify", "sleep"}

Reverse(seq) == [i \in 1..Len(seq) |-> seq[Len(seq) + 1 - i]]

\* fetch_unread_emails of the configured source: the batch it returns, or
\* "raise".  The IMAP fetch re-raises a connection error; the Graph fetch
\* returns an empty list instead, and lists the newest message first.
FetchBatch(fetchOK) ==
    IF settings.use_graph_api
      THEN IF fetchOK THEN Reverse(unread) ELSE <<>>
      ELSE IF fetchOK THEN unread ELSE "raise"

\* The IMAP fetch flags each message \Seen; the Graph fetch flags nothing.
UnreadAfterFetch(fetchOK) ==
    IF settings.use_graph_api \/ ~fetchOK THEN unread ELSE <<>>

\* Line 166: how the fetch of a run ended.
Fetched(fetchOK) == IF fetchOK THEN "ok" ELSE "failed"

check_emails_NoCatch(origin, fetchOK) ==
    LET r == nruns + 1
        batch == FetchBatch(fetchOK)
    IN  IF ~settings.imap_enabled
          THEN UNCHANGED <<nruns, unread, runs>>
          ELSE /\ Events < MaxEvents
               /\ nruns' = r
               /\ unread' = UnreadAfterFetch(fetchOK)
               /\ runs' = [runs EXCEPT ![r] =
                             IF ~fetchOK /\ ~settings.use_graph_api
                               THEN [pc |-> "raised", origin |-> Null,
                                     emails |-> <<>>, idx |-> 0, result |-> NoResult]
                             ELSE IF batch # <<>>
                               THEN [pc |-> "classify", origin |-> origin,
                                     emails |-> batch, idx |-> 1, result |-> NoResult]
                               ELSE [pc |-> "done", origin |-> Null,
                                     emails |-> <<>>, idx |-> 0, result |-> NoResult]]

\* EmailWorker.check_emails from its call to the first suspension (the LLM
\* call for the first message) or, for an empty batch or a failed fetch,
\* to its return.  Lines 193-194 catch the exception of a failed fetch.
check_emails(origin, fetchOK) ==
    LET r == nruns + 1
        batch == FetchBatch(fetchOK)
    IN  IF ~settings.imap_enabled
          THEN UNCHANGED <<nruns, unread, runs>>
          ELSE /\ Events < MaxEvents
               /\ nruns' = r
               /\ unread' = UnreadAfterFetch(fetchOK)
               /\ runs' = [runs EXCEPT ![r] =
                             IF fetchOK /\ batch # <<>>
                               THEN [pc |-> "classify", origin |-> origin,
                                     emails |-> batch, idx |-> 1, result |-> NoResult]
                               ELSE [pc |-> "done", origin |-> Null,
                                     emails |-> <<>>, idx |-> 0, result |-> NoResult]]

\* The connectivity check of start(): EmailFetcher.test_connection is a
\* coroutine that returns a bool; GraphEmailFetcher.test_connection is a
\* plain method, so awaiting its bool raises TypeError whatever the result.
ConnectionTest(conn) ==
    IF settings.use_graph_api THEN "raised"
    ELSE IF conn THEN "ok" ELSE "failed"

\* Lines 212-219: only a check that returns false aborts the start.
StartProceeds(conn) == ConnectionTest(conn) # "failed"

StartSkips_IgnoreRunning == ~settings.imap_enabled

StartSkips_IgnoreEnabled == is_running

\* Lines 198-204: start() returns at once on a running worker and when
\* polling is disabled.
StartSkips == is_running \/ ~settings.imap_enabled

Start_NoInitialRun(conn, fetchOK) ==
    IF StartSkips \/ ~StartProceeds(conn)
      THEN /\ lastOp' = [op |-> "start", pre_running |-> is_running,
                         conn |-> IF StartSkips
                                    THEN Null ELSE IF conn THEN "ok" ELSE "fail",
                         began |-> FALSE, fetch |-> Null]
           /\ UNCHANGED <<brevo_call, fetch_call, now, db_call, intent_call, settings, is_running, scheduler, unread,
                          arrived, runs, nruns, reqs, nreqs, contacts, blacklisted,
                          createCount, lastTwo, log>>
      ELSE /\ scheduler' = [running |-> TRUE, jobs |-> 1,
                            interval |-> settings.imap_check_interval]
           /\ is_running' = TRUE
           /\ lastOp' = [op |-> "start", pre_running |-> is_running,
                         conn |-> IF conn THEN "ok" ELSE "fail", began |-> TRUE, fetch |-> Null]
           /\ UNCHANGED <<brevo_call, fetch_call, now, db_call, intent_call, settings, unread, arrived, runs, nruns,
                          reqs, nreqs, contacts, blacklisted, createCount, lastTwo,
                          log>>

\* EmailWorker.start, up to the first suspension of its initial run.
Start(conn, fetchOK) ==
    IF StartSkips \/ ~StartProceeds(conn)
      THEN /\ lastOp' = [op |-> "start", pre_running |-> is_running,
                         conn |-> IF StartSkips
                                    THEN Null ELSE IF conn THEN "ok" ELSE "fail",
                         began |-> FALSE, fetch |-> Null]
           /\ UNCHANGED <<brevo_call, fetch_call, now, db_call, intent_call, settings, is_running, scheduler, unread, arrived, runs,
                          nruns, reqs, nreqs, contacts, blacklisted, createCount,
                          lastTwo, log>>
      ELSE /\ scheduler' = [running |-> TRUE, jobs |-> 1,
                            interval |-> settings.imap_check_interval]
           /\ is_running' = TRUE
           /\ check_emails("start", fetchOK)
           /\ lastOp' = [op |-> "start", pre_running |-> is_running,
                         conn |-> IF conn THEN "ok" ELSE "fail", began |-> TRUE,
                         fetch |-> Fetched(fetchOK)]
           /\ UNCHANGED <<brevo_call, fetch_call, now, db_call, intent_call, settings, arrived, reqs, nreqs, contacts, blacklisted,
                          createCount, lastTwo, log>>

\* POST /worker/start: what the endpoint answers once start() has returned.
\* start() reports nothing to its caller and catches its own exceptions.
start_worker ==
    IF ~settings.imap_enabled
      THEN [status |-> 503, success |-> FALSE,
            message |-> "IMAP worker is disabled in configuration"]
      ELSE [status |-> 200, success |-> TRUE, message |-> "Email worker started"]

\* POST /worker/stop: what the endpoint answers once stop() has returned.
\* The worker object exists when polling is enabled.
stop_worker ==
    IF ~settings.imap_enabled
      THEN [status |-> 200, success |-> FALSE,
            message |-> "Email worker not initialized"]
      ELSE [status |-> 200, success |-> TRUE, message |-> "Email worker stopped"]

\* EmailWorker.get_status: the running and enabled flags.
get_status ==
    [running |-> is_running /\ settings.imap_enabled,
     enabled |-> settings.imap_enabled]

\* scheduler.shutdown(): no job is submitted any more.  The executor of an
\* AsyncIOScheduler cannot wait for the instances it submitted: it cancels
\* their tasks.  The scheduler is library code, so a job instance in flight
\* is taken here both ways, left alone or cancelled.  A run that start() or
\* /worker/check-now awaits is no task of the executor.
Shutdown(cancel) ==
    [r \in Runs |-> IF cancel /\ InFlight(r) /\ runs[r].origin = "scheduler"
                      THEN CancelledRun ELSE runs[r]]

Stop_NoShutdown(cancel) ==
    /\ lastOp' = [op |-> "stop", pre_running |-> is_running, conn |-> Null,
                  began |-> FALSE, fetch |-> Null]
    /\ is_running' = FALSE
    /\ UNCHANGED <<brevo_call, fetch_call, now, db_call, intent_call, settings, scheduler, unread, arrived, runs, nruns,
                   reqs, nreqs, contacts, blacklisted, createCount, lastTwo, log>>

Stop_KeepFlag(cancel) ==
    /\ lastOp' = [op |-> "stop", pre_running |-> is_running, conn |-> Null,
                  began |-> FALSE, fetch |-> Null]
    /\ IF is_running
         THEN /\ scheduler' = [scheduler EXCEPT !.running = FALSE]
              /\ runs' = Shutdown(cancel)
         ELSE UNCHANGED <<scheduler, runs>>
    /\ UNCHANGED <<brevo_call, fetch_call, now, db_call, intent_call, settings, is_running, unread, arrived, nruns, reqs, nreqs, contacts,
                   blacklisted, createCount, lastTwo, log>>

\* EmailWorker.stop.
Stop(cancel) ==
    /\ lastOp' = [op |-> "stop", pre_running |-> is_running, conn |-> Null,
                  began |-> FALSE, fetch |-> Null]
    /\ IF is_running
         THEN /\ scheduler' = [scheduler EXCEPT !.running = FALSE]
              /\ is_running' = FALSE
              /\ runs' = Shutdown(cancel)
         ELSE UNCHANGED <<scheduler, is_running, runs>>
    /\ UNCHANGED <<brevo_call, fetch_call, now, db_call, intent_call, settings, unread, arrived, nruns, reqs, nreqs, contacts,
                   blacklisted, createCount, lastTwo, log>>

\* The interval trigger fires the job.  add_job leaves max_instances at its
\* default of 1: the scheduler does not submit the job while an instance it
\* submitted itself is still running.
\* The scheduler submits the job: it is running, the job is registered and
\* no instance it submitted is still running.
JobDue ==
    /\ scheduler.running
    /\ scheduler.jobs = 1
    /\ \A r \in Runs : ~(InFlight(r) /\ runs[r].origin = "scheduler")

SchedulerFire(fetchOK) ==
    /\ JobDue
    /\ check_emails("scheduler", fetchOK)
    /\ lastOp' = [op |-> "fire", pre_running |-> is_running, conn |-> Null,
                  began |-> TRUE, fetch |-> Fetched(fetchOK)]
    /\ UNCHANGED <<brevo_call, fetch_call, now, db_call, intent_call, settings, is_running, scheduler, arrived, reqs, nreqs, contacts,
                   blacklisted, createCount, lastTwo, log>>

\* POST /worker/check-now.
trigger_email_check(fetchOK) ==
    IF ~settings.imap_enabled
      THEN /\ lastOp' = [op |-> "check-now", pre_running |-> is_running,
                         conn |-> Null, began |-> FALSE, fetch |-> Null]
           /\ UNCHANGED <<brevo_call, fetch_call, now, db_call, intent_call, settings, is_running, scheduler, unread, arrived, runs,
                          nruns, reqs, nreqs, contacts, blacklisted, createCount,
                          lastTwo, log>>
      ELSE /\ check_emails("manual", fetchOK)
           /\ lastOp' = [op |-> "check-now", pre_running |-> is_running,
                         conn |-> Null, began |-> TRUE, fetch |-> Fetched(fetchOK)]
           /\ UNCHANGED <<brevo_call, fetch_call, now, db_call, intent_call, settings, is_running, scheduler, arrived, reqs, nreqs,
                          contacts, blacklisted, createCount, lastTwo, log>>

\* check_emails called on the worker object itself while polling is disabled.
\* The endpoints never make this call: they test imap_enabled first.  With
\* polling enabled the call is the one /worker/check-now makes.
CallCheckEmails(fetchOK) ==
    /\ ~settings.imap_enabled
    /\ check_emails("manual", fetchOK)
    /\ lastOp' = [op |-> "check_emails", pre_running |-> is_running,
                  conn |-> Null, began |-> FALSE, fetch |-> Null]
    /\ UNCHANGED <<brevo_call, fetch_call, now, db_call, intent_call, settings, is_running, scheduler, arrived, reqs,
                   nreqs, contacts, blacklisted, createCount, lastTwo, log>>

email_data_Reversed(r) == runs[r].emails[Len(runs[r].emails) + 1 - runs[r].idx]

\* Line 175: the loop variable of check_emails, the message of the batch
\* that run r is at.
email_data(r) == runs[r].emails[runs[r].idx]

\* The LLM call of run r returns: the rest of process_email for the current
\* message runs, then check_emails suspends in asyncio.sleep(1).
ResumeWorker(r, resp, fault, replyOK, dbOK) ==
    /\ runs[r].pc = "classify"
    /\ LET msg == email_data(r)
           out == process_email(msg, resp, fault, replyOK, dbOK)
       IN  /\ runs' = [runs EXCEPT ![r].pc = "sleep", ![r].result = out.result]
           /\ BrevoEffect(msg.sender, out.brevo)
           /\ log' = log \o out.rows
    /\ UNCHANGED <<brevo_call, fetch_call, now, db_call, intent_call, settings, is_running, scheduler, unread, arrived, nruns, reqs, nreqs>>
    /\ lastOp' = NoOp

\* The sleep of run r ends: the next message of the batch, or the summary.
Wake(r) ==
    /\ runs[r].pc = "sleep"
    /\ runs' = IF runs[r].idx < Len(runs[r].emails)
                 THEN [runs EXCEPT ![r].idx = @ + 1, ![r].pc = "classify",
                                   ![r].result = NoResult]
                 ELSE [runs EXCEPT ![r] = [pc |-> "done", origin |-> Null,
                                           emails |-> <<>>, idx |-> 0,
                                           result |-> NoResult]]
    /\ UNCHANGED <<brevo_call, fetch_call, now, db_call, intent_call, settings, is_running, scheduler, unread, arrived, nruns, reqs, nreqs,
                   contacts, blacklisted, createCount, lastTwo, log>>
    /\ lastOp' = NoOp

\* ----------------------------------------------------------- the webhook
\* POST /inbound-email arrives and suspends in the LLM call.  The request
\* model has no message_id field.
Inbound(q, msg) ==
    /\ Events < MaxEvents
    /\ q = nreqs + 1
    /\ ~msg.has_id
    /\ nreqs' = q
    /\ reqs' = [reqs EXCEPT ![q].pc = "classify", ![q].msg = msg]
    /\ UNCHANGED <<brevo_call, fetch_call, now, db_call, intent_call, settings, is_running, scheduler, unread, arrived, runs, nruns,
                   contacts, blacklisted, createCount, lastTwo, log>>
    /\ lastOp' = NoOp

\* The LLM call of request q returns: the rest of the handler runs and the
\* response is ready.
ResumeInbound(q, resp, fault, replyOK, dbOK) ==
    /\ reqs[q].pc = "classify"
    /\ LET msg == reqs[q].msg
           out == process_inbound_email(msg, resp, fault, replyOK, dbOK)
       IN  /\ reqs' = [reqs EXCEPT ![q].pc = "done", ![q].response = out.response]
           /\ BrevoEffect(msg.sender, out.brevo)
           /\ log' = log \o out.rows
    /\ UNCHANGED <<brevo_call, fetch_call, now, db_call, intent_call, nreqs, settings, is_running, scheduler, unread, arrived, runs, nruns>>
    /\ lastOp' = NoOp

\* The response of request q is delivered and the request is over.
Respond(q) ==
    /\ reqs[q].pc = "done"
    /\ reqs' = [reqs EXCEPT ![q] = [pc |-> "closed", msg |-> Null,
                                    response |-> NoResponse]]
    /\ UNCHANGED <<brevo_call, fetch_call, now, db_call, intent_call, nreqs, settings, is_running, scheduler, unread, arrived, runs, nruns,
                   contacts, blacklisted, createCount, lastTwo, log>>
    /\ lastOp' = NoOp

\* ----------------------------------------------------------- environment
\* A new unread message reaches the mailbox.  Only the Graph source reads
\* the identifier, so IMAP messages are taken with their Message-ID header.
Arrive(msg) ==
    /\ Events < MaxEvents
    /\ settings.use_graph_api \/ msg.has_id
    /\ arrived' = arrived + 1
    /\ unread' = Append(unread, msg)
    /\ UNCHANGED <<brevo_call, fetch_call, now, db_call, intent_call, settings, is_running, scheduler, runs, nruns, reqs, nreqs, contacts,
                   blacklisted, createCount, lastTwo, log>>
    /\ lastOp' = NoOp

\* ------------------------------------------------ the action log, stored
\* Line 55: the number of characters of the body that the snippet keeps.
SnippetChars == 200

\* GET /blocklist/recent: the default and the largest limit.
DefaultLimit == 50

MaxLimit == 500

\* A text of n characters.
Chars(n) == [i \in 1..n |-> "x"]

Ellipsis == <<".", ".", ".">>

\* Python's None where a text is expected.
None == <<"None">>

\* Lines 52-55: the snippet of the body that is stored.
email_snippet(message_text) ==
    IF message_text = <<>> THEN None
    ELSE IF Len(message_text) > SnippetChars
           THEN SubSeq(message_text, 1, SnippetChars) \o Ellipsis
           ELSE message_text

\* The id that SQLite gives the next row of an INTEGER PRIMARY KEY column:
\* one more than the largest id in the table.
NextId ==
    IF log = <<>> THEN 1
    ELSE 1 + (CHOOSE m \in {log[i].id : i \in 1..Len(log)} :
                 \A i \in 1..Len(log) : log[i].id <= m)

UnsubscribeLog_SameId(columns, message_text) ==
    [id |-> 1, email_snippet |-> email_snippet(message_text),
     created_at |-> now] @@ columns

\* Lines 58-74: the row as it is stored, with the columns the caller passed,
\* the snippet, the id the table assigns and the time of the write.
UnsubscribeLog(columns, message_text) ==
    [id |-> NextId, email_snippet |-> email_snippet(message_text),
     created_at |-> now] @@ columns

\* UnsubscribeLog.to_dict: the columns that a read returns.
to_dict(row) ==
    [k \in {"id", "email", "intent_detected", "intent_confidence",
            "brevo_success", "brevo_action", "brevo_message", "email_snippet",
            "source", "created_at"} |-> row[k]]

\* order_by(created_at.desc()): the orders in which the rows can come back.
\* Rows of equal created_at come in an order the query does not fix.
OrderByCreatedDesc(rows) ==
    LET n == Cardinality(rows)
    IN  {s \in [1..n -> rows] :
            /\ \A i, j \in 1..n : i # j => s[i] # s[j]
            /\ \A i \in 1..(n - 1) : s[i].created_at >= s[i + 1].created_at}

Stored == {log[i] : i \in 1..Len(log)}

Dicts(s) == [i \in 1..Len(s) |-> to_dict(s[i])]

\* .limit(n) of SQLite: a negative LIMIT is no limit.
Limit(s, n) ==
    IF n < 0 THEN s ELSE SubSeq(s, 1, IF n < Len(s) THEN n ELSE Len(s))

\* email.like("%" + email + "%"): the column value contains the argument.
Like(email, value) ==
    \E i \in 0..(Len(value) - Len(email)) :
        SubSeq(value, i + 1, i + Len(email)) = email

Blocklisted(row) == row.intent_detected /\ row.brevo_success

\* DatabaseService.get_all_blocklisted_emails: the results it can return.
get_all_blocklisted_emails(successful_only) ==
    {Dicts(s) : s \in OrderByCreatedDesc(
        IF successful_only THEN {row \in Stored : Blocklisted(row)} ELSE Stored)}

get_blocklist_stats_BySuccess ==
    LET Count(P(_)) == Cardinality({i \in 1..Len(log) : P(log[i])})
        detected(row) == row.intent_detected
        blocked(row) == row.intent_detected /\ row.brevo_success
        failed(row) == row.intent_detected /\ ~row.brevo_success
        unblocked(row) == ~row.brevo_success
    IN  [total_processed |-> Len(log),
         intent_detected_count |-> Count(detected),
         successfully_blocklisted |-> Count(blocked),
         failed_blocklist |-> Count(failed),
         no_intent_detected |-> Count(unblocked),
         source_breakdown |->
            [src \in {row.source : row \in Stored} |->
                Cardinality({i \in 1..Len(log) : log[i].source = src})]]

\* DatabaseService.get_blocklist_stats.
get_blocklist_stats ==
    LET Count(P(_)) == Cardinality({i \in 1..Len(log) : P(log[i])})
        detected(row) == row.intent_detected
        blocked(row) == row.intent_detected /\ row.brevo_success
        failed(row) == row.intent_detected /\ ~row.brevo_success
        total_logs == Len(log)
    IN  [total_processed |-> total_logs,
         intent_detected_count |-> Count(detected),
         successfully_blocklisted |-> Count(blocked),
         failed_blocklist |-> Count(failed),
         no_intent_detected |-> total_logs - Count(detected),
         source_breakdown |->
            [src \in {row.source : row \in Stored} |->
                Cardinality({i \in 1..Len(log) : log[i].source = src})]]

search_by_email_SuccessfulOnly(email) ==
    {Dicts(s) : s \in OrderByCreatedDesc(
        {row \in Stored : Like(email, row.email) /\ Blocklisted(row)})}

\* DatabaseService.search_by_email: the results it can return.
search_by_email(email) ==
    {Dicts(s) : s \in OrderByCreatedDesc({row \in Stored : Like(email, row.email)})}

\* The columns of the CSV file.
fieldnames ==
    {"id", "email", "intent_detected", "intent_confidence", "brevo_success",
     "brevo_action", "source", "created_at"}

\* DatabaseService.export_to_csv: the lines it can write after the header.
export_to_csv(successful_only) ==
    {[i \in 1..Len(logs) |-> [k \in fieldnames |-> logs[i][k]]] :
        logs \in get_all_blocklisted_emails(successful_only)}

\* DatabaseService.get_recent_logs: the results it can return.
get_recent_logs(limit) ==
    {Dicts(Limit(s, limit)) : s \in OrderByCreatedDesc(Stored)}

\* ---------------------------------------------------------- specification
\* No call of unsubscribe_contact on its own.
NoBrevoCall == [n |-> 0, email |-> Null, contact_exists |-> FALSE,
                fault |-> Null, outcome |-> NoCall]

\* No call of fetch_unread_emails on its own.
NoFetchCall == [op |-> Null, raised |-> FALSE, emails |-> <<>>, found |-> <<>>]

\* No call of the action log on its own.
NoStats == [total_processed |-> 0, intent_detected_count |-> 0,
            successfully_blocklisted |-> 0, failed_blocklist |-> 0,
            no_intent_detected |-> 0, source_breakdown |-> <<>>]

NoColumns == log_unsubscribe_action(<<>>, FALSE, FALSE, Null, Null, Null, Null)

NoDbCall == [op |-> Null, email |-> <<>>, message_text |-> <<>>,
             columns |-> NoColumns, given |-> Null, limit |-> 0, status |-> 0,
             rows |-> <<>>, stats |-> NoStats]

\* No call of detect_intent on its own.
NoDecision == [has_unsubscribe_intent |-> FALSE, confidence |-> Null,
               reasoning |-> Null]

NoIntentCall == [message_text |-> <<>>, result_text |-> <<>>,
                 response |-> [kind |-> Null, hi |-> Null, conf |-> Null],
                 decision |-> NoDecision]

Init ==
    /\ intent_call = NoIntentCall
    /\ settings \in [imap_enabled : BOOLEAN, use_graph_api : BOOLEAN,
                     send_confirmation_email : BOOLEAN,
                     imap_check_interval : {imap_check_interval}]
    /\ is_running = FALSE
    /\ scheduler = [running |-> FALSE, jobs |-> 0, interval |-> 0]
    /\ unread \in {<<>>} \cup {<<m>> : m \in {x \in Messages :
                                        settings.use_graph_api \/ x.has_id}}
    /\ arrived = 0
    /\ runs = [r \in Runs |-> IdleRun]
    /\ nruns = 0
    /\ reqs = [q \in Reqs |-> IdleReq]
    /\ nreqs = 0
    /\ contacts \in SUBSET Addrs
    /\ blacklisted = {}
    /\ createCount = [a \in Addrs |-> 0]
    /\ lastTwo = [a \in Addrs |-> <<Null, Null>>]
    /\ log = <<>>
    /\ lastOp = NoOp
    /\ now = 0
    /\ db_call = NoDbCall
    /\ fetch_call = NoFetchCall
    /\ brevo_call = NoBrevoCall

Next ==
    \/ \E conn \in BOOLEAN, fetchOK \in BOOLEAN : Start(conn, fetchOK)
    \/ \E cancel \in BOOLEAN : Stop(cancel)
    \/ \E fetchOK \in BOOLEAN : SchedulerFire(fetchOK)
    \/ \E fetchOK \in BOOLEAN : trigger_email_check(fetchOK)
    \/ \E fetchOK \in BOOLEAN : CallCheckEmails(fetchOK)
    \/ \E r \in Runs, resp \in LLMResponses, fault \in Faults,
          replyOK \in BOOLEAN, dbOK \in BOOLEAN :
            ResumeWorker(r, resp, fault, replyOK, dbOK)
    \/ \E r \in Runs : Wake(r)
    \/ \E q \in Reqs, msg \in Messages : Inbound(q, msg)
    \/ \E q \in Reqs, resp \in LLMResponses, fault \in Faults,
          replyOK \in BOOLEAN, dbOK \in BOOLEAN :
            ResumeInbound(q, resp, fault, replyOK, dbOK)
    \/ \E q \in Reqs : Respond(q)
    \/ \E msg \in Messages : Arrive(msg)

Spec == Init /\ [][Next]_vars

\* ---------------------------------------------- detect_intent on its own
\* One call of detect_intent for every message text and every LLM result.
InitIntent ==
    /\ intent_call \in [message_text : Texts, result_text : {<<>>}, response : LLMResults,
                         decision : {NoDecision}]
    /\ settings = [imap_enabled |-> TRUE, use_graph_api |-> FALSE,
                   send_confirmation_email |-> FALSE,
                   imap_check_interval |-> imap_check_interval]
    /\ is_running = FALSE
    /\ scheduler = [running |-> FALSE, jobs |-> 0, interval |-> 0]
    /\ unread = <<>>
    /\ arrived = 0
    /\ runs = [r \in Runs |-> IdleRun]
    /\ nruns = 0
    /\ reqs = [q \in Reqs |-> IdleReq]
    /\ nreqs = 0
    /\ contacts = {}
    /\ blacklisted = {}
    /\ createCount = [a \in Addrs |-> 0]
    /\ lastTwo = [a \in Addrs |-> <<Null, Null>>]
    /\ log = <<>>
    /\ lastOp = NoOp
    /\ now = 0
    /\ db_call = NoDbCall
    /\ fetch_call = NoFetchCall
    /\ brevo_call = NoBrevoCall

Classify ==
    /\ intent_call.decision.reasoning = Null
    /\ intent_call' = [intent_call EXCEPT !.decision =
                          detect_intent(intent_call.message_text, intent_call.response)]
    /\ UNCHANGED <<brevo_call, fetch_call, now, db_call, settings, is_running, scheduler, unread, arrived,
                   runs, nruns, reqs, nreqs, contacts, blacklisted, createCount,
                   lastTwo, log, lastOp>>

NextIntent == Classify

SpecIntent == InitIntent /\ [][NextIntent]_vars


\* --------------------------------------------- the action log on its own
\* The largest number of rows written.
MaxRows == 2

\* The largest reading of the clock.
MaxTime == 1

\* The largest number of characters of a body beyond SnippetChars.
MaxExtra == 1

\* The bodies, the addresses, the limits and the outcomes that are logged.
LogTexts == {Chars(n) : n \in {0} \cup {SnippetChars + k : k \in 0..MaxExtra}}

LogAddrs == {<<"a">>, <<"b", "a">>}

Limits == {-1, 0, 1, DefaultLimit, MaxLimit + 1}

LogOutcomes ==
    {[intent_detected |-> FALSE, brevo_success |-> FALSE,
      intent_confidence |-> "low", brevo_action |-> Null, brevo_message |-> Null],
     [intent_detected |-> TRUE, brevo_success |-> FALSE,
      intent_confidence |-> "high", brevo_action |-> "failed",
      brevo_message |-> "Brevo API error"],
     [intent_detected |-> TRUE, brevo_success |-> TRUE,
      intent_confidence |-> "high", brevo_action |-> "created",
      brevo_message |-> "Contact created and blocklisted"]}

pipeline_vars ==
    <<brevo_call, fetch_call, intent_call, settings, is_running, scheduler, unread, arrived, runs, nruns,
      reqs, nreqs, contacts, blacklisted, createCount, lastTwo, lastOp>>

InitLog ==
    /\ log = <<>>
    /\ now = 0
    /\ db_call = NoDbCall
    /\ fetch_call = NoFetchCall
    /\ brevo_call = NoBrevoCall
    /\ intent_call = NoIntentCall
    /\ settings = [imap_enabled |-> TRUE, use_graph_api |-> FALSE,
                   send_confirmation_email |-> FALSE,
                   imap_check_interval |-> imap_check_interval]
    /\ is_running = FALSE
    /\ scheduler = [running |-> FALSE, jobs |-> 0, interval |-> 0]
    /\ unread = <<>>
    /\ arrived = 0
    /\ runs = [r \in Runs |-> IdleRun]
    /\ nruns = 0
    /\ reqs = [q \in Reqs |-> IdleReq]
    /\ nreqs = 0
    /\ contacts = {}
    /\ blacklisted = {}
    /\ createCount = [a \in Addrs |-> 0]
    /\ lastTwo = [a \in Addrs |-> <<Null, Null>>]
    /\ lastOp = NoOp

\* Time passes.
Tick ==
    /\ now < MaxTime
    /\ now' = now + 1
    /\ UNCHANGED <<log, db_call>>
    /\ UNCHANGED pipeline_vars

\* One call of log_unsubscribe_action, with the arguments it was given and
\* the row it returns.  When the commit fails the session is rolled back and
\* the exception goes to the caller.
LogAction(email, outcome, message_text, source, dbOK) ==
    /\ Len(log) < MaxRows
    /\ LET columns == log_unsubscribe_action(email, outcome.intent_detected,
                          outcome.brevo_success, outcome.intent_confidence,
                          outcome.brevo_action, outcome.brevo_message, source)
           log_entry == UnsubscribeLog(columns, message_text)
       IN  /\ log' = IF dbOK THEN Append(log, log_entry) ELSE log
           /\ db_call' = [NoDbCall EXCEPT !.op = "log", !.email = email,
                             !.message_text = message_text,
                             !.columns = columns,
                             !.status = IF dbOK THEN 200 ELSE 500,
                             !.rows = IF dbOK THEN <<log_entry>> ELSE <<>>]
    /\ UNCHANGED now
    /\ UNCHANGED pipeline_vars

\* GET /blocklist/recent.
BlocklistRecent(limit) ==
    /\ \E logs \in get_recent_logs(IF limit > MaxLimit THEN MaxLimit ELSE limit) :
          db_call' = [NoDbCall EXCEPT !.op = "recent", !.limit = limit,
                                      !.status = 200, !.rows = logs]
    /\ UNCHANGED <<log, now>>
    /\ UNCHANGED pipeline_vars

\* The successful_only parameter of a request, true when it is left out.
SuccessfulOnly(given) == IF given = "default" THEN TRUE ELSE given = "true"

\* GET /blocklist/all.
get_all_blocklisted(given) ==
    /\ \E emails \in get_all_blocklisted_emails(SuccessfulOnly(given)) :
          db_call' = [NoDbCall EXCEPT !.op = "all", !.given = given,
                                      !.status = 200, !.rows = emails]
    /\ UNCHANGED <<log, now>>
    /\ UNCHANGED pipeline_vars

\* GET /blocklist/search/{email}.
search_blocklist(email) ==
    /\ \E results \in search_by_email(email) :
          db_call' = [NoDbCall EXCEPT !.op = "search", !.email = email,
                                      !.status = 200, !.rows = results]
    /\ UNCHANGED <<log, now>>
    /\ UNCHANGED pipeline_vars

\* GET /blocklist/export.
export_blocklist(given) ==
    /\ \E lines \in export_to_csv(SuccessfulOnly(given)) :
          db_call' = [NoDbCall EXCEPT !.op = "export", !.given = given,
                                      !.status = 200, !.rows = lines]
    /\ UNCHANGED <<log, now>>
    /\ UNCHANGED pipeline_vars

\* GET /blocklist/stats.
BlocklistStats ==
    /\ db_call' = [NoDbCall EXCEPT !.op = "stats", !.status = 200,
                                   !.stats = get_blocklist_stats]
    /\ UNCHANGED <<log, now>>
    /\ UNCHANGED pipeline_vars

\* POST /blocklist/clear.  The handler calls db_service.clear_all_logs();
\* DatabaseService has no such method, so the call raises AttributeError,
\* which the handler turns into status 500.  No row is touched.
clear_blocklist ==
    /\ db_call' = [NoDbCall EXCEPT !.op = "clear", !.status = 500]
    /\ UNCHANGED <<log, now>>
    /\ UNCHANGED pipeline_vars

NextLog ==
    \/ Tick
    \/ \E email \in LogAddrs, outcome \in LogOutcomes, message_text \in LogTexts,
          source \in {"webhook", "worker"}, dbOK \in BOOLEAN :
            LogAction(email, outcome, message_text, source, dbOK)
    \/ \E limit \in Limits : BlocklistRecent(limit)
    \/ \E given \in {"default", "true", "false"} : get_all_blocklisted(given)
    \/ \E email \in LogAddrs : search_blocklist(email)
    \/ \E given \in {"default", "true", "false"} : export_blocklist(given)
    \/ BlocklistStats
    \/ clear_blocklist

SpecLog == InitLog /\ [][NextLog]_vars


\* ------------------------------------------ fetch_unread_emails on its own
\* The largest number of messages that reach the mailbox.
MaxMail == 2

\* The sender that the Graph fetch gives a message without sender address.
unknown_sender == "unknown@unknown.com"

\* The unread messages as the mail server holds them: the sender address
\* and the body, either of which can be empty, and whether reading the
\* message out raises an exception.
RawMessages ==
    [sender : Addrs \cup {""}, message_text : {<<>>, <<"hello">>},
     has_id : {TRUE}, broken : BOOLEAN]

\* Lines 108-153 of email_fetcher.py, for one message: the dict that is
\* appended, if any.
imap_extract(raw) ==
    IF ~raw.broken /\ raw.sender # "" /\ raw.message_text # <<>>
      THEN <<[sender |-> raw.sender, message_text |-> raw.message_text,
              has_id |-> raw.has_id]>>
      ELSE <<>>

\* Line 149: add_flags is the last statement of the try block of a message,
\* so it is skipped when an earlier statement of the block raises.
imap_seen(raw) == ~raw.broken

RECURSIVE imap_emails(_)
\* Lines 106-153: the dicts appended over the messages found, in their order.
imap_emails(msgs) ==
    IF msgs = <<>> THEN <<>>
    ELSE imap_extract(Head(msgs)) \o imap_emails(Tail(msgs))

\* EmailFetcher.fetch_unread_emails: whether it raises, the batch it
\* returns and the messages it leaves unseen.
EmailFetcher_fetch_unread_emails(connOK) ==
    IF ~connOK
      THEN [raised |-> TRUE, emails |-> <<>>, unread |-> unread]
      ELSE [raised |-> FALSE,
            emails |-> imap_emails(unread),
            unread |-> SelectSeq(unread, LAMBDA raw : ~imap_seen(raw))]

\* Lines 109-143 of graph_email_fetcher.py, for one message: the dict that
\* is appended, if any.
graph_extract(raw) ==
    IF raw.broken THEN <<>>
    ELSE <<[sender |-> IF raw.sender = "" THEN unknown_sender ELSE raw.sender,
            message_text |-> raw.message_text, has_id |-> raw.has_id]>>

RECURSIVE graph_emails(_)
\* Lines 108-143: the dicts appended over the messages found, in their order.
graph_emails(msgs) ==
    IF msgs = <<>> THEN <<>>
    ELSE graph_extract(Head(msgs)) \o graph_emails(Tail(msgs))

\* GraphEmailFetcher.fetch_unread_emails: the same three.  Every failure is
\* caught and answered with an empty list; no message is marked read.
GraphEmailFetcher_fetch_unread_emails(connOK) ==
    IF ~connOK
      THEN [raised |-> FALSE, emails |-> <<>>, unread |-> unread]
      ELSE [raised |-> FALSE,
            emails |-> graph_emails(Reverse(unread)),
            unread |-> unread]

fetch_vars ==
    <<brevo_call, now, db_call, log, intent_call, is_running, scheduler, runs, nruns, reqs,
      nreqs, contacts, blacklisted, createCount, lastTwo, lastOp>>

InitFetch ==
    /\ fetch_call = NoFetchCall
    /\ brevo_call = NoBrevoCall
    /\ unread = <<>>
    /\ settings \in [imap_enabled : {TRUE}, use_graph_api : BOOLEAN,
                     send_confirmation_email : {FALSE},
                     imap_check_interval : {imap_check_interval}]
    /\ now = 0
    /\ db_call = NoDbCall
    /\ log = <<>>
    /\ intent_call = NoIntentCall
    /\ is_running = FALSE
    /\ scheduler = [running |-> FALSE, jobs |-> 0, interval |-> 0]
    /\ arrived = 0
    /\ runs = [r \in Runs |-> IdleRun]
    /\ nruns = 0
    /\ reqs = [q \in Reqs |-> IdleReq]
    /\ nreqs = 0
    /\ contacts = {}
    /\ blacklisted = {}
    /\ createCount = [a \in Addrs |-> 0]
    /\ lastTwo = [a \in Addrs |-> <<Null, Null>>]
    /\ lastOp = NoOp

\* A message reaches the mailbox.
Deliver(raw) ==
    /\ arrived < MaxMail
    /\ arrived' = arrived + 1
    /\ unread' = Append(unread, raw)
    /\ UNCHANGED <<brevo_call, fetch_call, settings>>
    /\ UNCHANGED fetch_vars

\* One call of fetch_unread_emails of the configured source.
Fetch(connOK) ==
    /\ LET out == IF settings.use_graph_api
                    THEN GraphEmailFetcher_fetch_unread_emails(connOK)
                    ELSE EmailFetcher_fetch_unread_emails(connOK)
       IN  /\ fetch_call' = [op |-> IF connOK THEN "fetch" ELSE "fetch-failed",
                             raised |-> out.raised, emails |-> out.emails,
                             found |-> unread]
           /\ unread' = out.unread
    /\ UNCHANGED <<settings, arrived>>
    /\ UNCHANGED fetch_vars

NextFetch ==
    \/ \E raw \in RawMessages : Deliver(raw)
    \/ \E connOK \in BOOLEAN : Fetch(connOK)

SpecFetch == InitFetch /\ [][NextFetch]_vars


\* ------------------------------------- the parsing of the LLM result alone
\* The largest number of characters of an LLM result.
MaxRaw == 5

RawTexts == UNION {[1..n -> RawChars] : n \in 0..MaxRaw}

\* One call of detect_intent for every text of the LLM result, on a message
\* without a keyword and on one with a keyword.
InitParse ==
    /\ intent_call \in [message_text : {<<"hello">>, <<"unsubscribe">>},
                         result_text : RawTexts,
                         response : {NoIntentCall.response},
                         decision : {NoDecision}]
    /\ settings = [imap_enabled |-> TRUE, use_graph_api |-> FALSE,
                   send_confirmation_email |-> FALSE,
                   imap_check_interval |-> imap_check_interval]
    /\ is_running = FALSE
    /\ scheduler = [running |-> FALSE, jobs |-> 0, interval |-> 0]
    /\ unread = <<>>
    /\ arrived = 0
    /\ runs = [r \in Runs |-> IdleRun]
    /\ nruns = 0
    /\ reqs = [q \in Reqs |-> IdleReq]
    /\ nreqs = 0
    /\ contacts = {}
    /\ blacklisted = {}
    /\ createCount = [a \in Addrs |-> 0]
    /\ lastTwo = [a \in Addrs |-> <<Null, Null>>]
    /\ log = <<>>
    /\ lastOp = NoOp
    /\ now = 0
    /\ db_call = NoDbCall
    /\ fetch_call = NoFetchCall
    /\ brevo_call = NoBrevoCall

\* detect_intent from the return of the LLM call.
ParseAndClassify ==
    /\ intent_call.decision.reasoning = Null
    /\ LET response == json_loads(result_cleaned(intent_call.result_text))
       IN  intent_call' = [intent_call EXCEPT
                             !.response = response,
                             !.decision = detect_intent(intent_call.message_text,
                                                        response)]
    /\ UNCHANGED <<brevo_call, fetch_call, now, db_call, settings, is_running, scheduler, unread, arrived,
                   runs, nruns, reqs, nreqs, contacts, blacklisted, createCount,
                   lastTwo, log, lastOp>>

NextParse == ParseAndClassify

SpecParse == InitParse /\ [][NextParse]_vars

\* ------------------------------------------ unsubscribe_contact on its own
\* The largest number of unsubscribe_contact calls.
MaxCalls == 8

\* The Brevo account may hold the address before the first call, suppressed
\* or not.
InitBrevo ==
    /\ brevo_call = NoBrevoCall
    /\ contacts \in SUBSET Addrs
    /\ blacklisted \in SUBSET contacts
    /\ createCount = [a \in Addrs |-> 0]
    /\ lastTwo = [a \in Addrs |-> <<Null, Null>>]
    /\ fetch_call = NoFetchCall
    /\ unread = <<>>
    /\ settings = [imap_enabled |-> FALSE, use_graph_api |-> FALSE,
                   send_confirmation_email |-> FALSE,
                   imap_check_interval |-> imap_check_interval]
    /\ now = 0
    /\ db_call = NoDbCall
    /\ log = <<>>
    /\ intent_call = NoIntentCall
    /\ is_running = FALSE
    /\ scheduler = [running |-> FALSE, jobs |-> 0, interval |-> 0]
    /\ arrived = 0
    /\ runs = [r \in Runs |-> IdleRun]
    /\ nruns = 0
    /\ reqs = [q \in Reqs |-> IdleReq]
    /\ nreqs = 0
    /\ lastOp = NoOp

\* One call of BrevoService.unsubscribe_contact(email) and what the backend
\* does to it.
Unsubscribe(email, fault) ==
    /\ brevo_call.n < MaxCalls
    /\ LET contact_exists == email \in contacts
           outcome == unsubscribe_contact(contact_exists, fault)
       IN  /\ brevo_call' = [n |-> brevo_call.n + 1, email |-> email,
                             contact_exists |-> contact_exists,
                             fault |-> fault, outcome |-> outcome]
           /\ BrevoEffect(email, outcome)
    /\ UNCHANGED <<fetch_call, now, db_call, log, intent_call, settings, is_running,
                   scheduler, unread, arrived, runs, nruns, reqs, nreqs, lastOp>>

NextBrevo == \E email \in Addrs, fault \in Faults : Unsubscribe(email, fault)

SpecBrevo == InitBrevo /\ [][NextBrevo]_vars

\* ------------------------------------------------------------------ claims
TypeOK ==
    /\ is_running \in BOOLEAN
    /\ scheduler \in [running : BOOLEAN, jobs : 0..1,
                       interval : {0, imap_check_interval}]
    /\ nruns \in 0..MaxEvents /\ nreqs \in 0..MaxEvents /\ arrived \in 0..MaxEvents
    /\ Len(unread) <= MaxEvents + 1
    /\ contacts \subseteq Addrs /\ blacklisted \subseteq contacts
    /\ \A r \in Runs : runs[r].pc \in {"idle", "classify", "sleep", "done", "cancelled"}
    /\ \A q \in Reqs : reqs[q].pc \in {"idle", "classify", "done", "closed"}

\* A run of check_emails that has processed its current message.
Processed(r) == runs[r].pc = "sleep"

\* A request whose handler has finished.
Handled(q) == reqs[q].pc = "done"

Has(seq, x) == \E i \in 1..Len(seq) : seq[i] = x

\* C1: at no time are two executions of check_emails in flight; a second
\* invocation made while one is in flight does not fetch or process.
C1_SingleRunInFlight ==
    Cardinality({r \in Runs : InFlight(r)}) <= 1

\* C2: start() on a Stopped, enabled worker whose connectivity check reports
\* failure leaves the worker Stopped: no active recurring job, no check_emails
\* run, get_status() reports running=false; for the IMAP and the Graph source.
C2_FailedCheckKeepsStopped ==
    (/\ lastOp.op = "start"
     /\ ~lastOp.pre_running
     /\ settings.imap_enabled
     /\ lastOp.conn = "fail")
    => (/\ ~is_running
        /\ ~scheduler.running
        /\ ~lastOp.began
        /\ ~get_status.running)

\* C3: every invocation of the per-message pipeline (worker and webhook)
\* attempts exactly one ActionLog append, as its last step, also when
\* suppression fails or a step raises.
C3_OneAppendPerMessage ==
    /\ \A r \in Runs : Processed(r) =>
          /\ runs[r].result.appends = 1
          /\ runs[r].result.steps[Len(runs[r].result.steps)] = "log"
    /\ \A q \in Reqs : Handled(q) =>
          /\ reqs[q].response.appends = 1
          /\ reqs[q].response.steps[Len(reqs[q].response.steps)] = "log"

\* C4: every valid /inbound-email request ends in a structured response
\* whose unsubscribe_intent_detected and unsubscribed_from_brevo fields equal
\* the classifier decision and the suppression outcome, never in an
\* internal-error response.
C4_WebhookAlwaysStructured ==
    \A q \in Reqs : Handled(q) =>
        /\ reqs[q].response.status = "200"
        /\ reqs[q].response.unsubscribe_intent_detected = reqs[q].response.decided
        /\ reqs[q].response.unsubscribed_from_brevo = reqs[q].response.brevo.success

\* C5: in process_email, once suppression has succeeded, no failure of the
\* reply step changes the outcome: the result has unsubscribed_from_brevo=true
\* and error=None, and the ActionRecord is written.
C5_ReplyFailureKeepsOutcome ==
    \A r \in Runs :
        (Processed(r) /\ runs[r].result.brevo_details.success) =>
            /\ runs[r].result.unsubscribed_from_brevo
            /\ ~runs[r].result.error
            /\ runs[r].result.appends = 1

\* C6: a confirmation reply is sent only when intent was detected, suppression
\* succeeded and send_confirmation_email is on, in the worker pipeline and in
\* the webhook pipeline.
C6_ReplyOnlyWhenConfigured ==
    /\ \A r \in Runs :
          (Processed(r) /\ Has(runs[r].result.steps, "reply")) =>
              /\ settings.send_confirmation_email
              /\ runs[r].result.unsubscribe_intent_detected
              /\ runs[r].result.unsubscribed_from_brevo
    /\ \A q \in Reqs :
          (Handled(q) /\ Has(reqs[q].response.steps, "reply")) =>
              /\ settings.send_confirmation_email
              /\ reqs[q].response.decided
              /\ reqs[q].response.brevo.success

\* C7: for a message classified has_intent=false the pipeline calls no
\* suppression and sends no reply, and the ActionRecord written for it has
\* suppression_success=false, suppression_action=null, suppression_message=null.
C7_NoIntentNoAction ==
    /\ \A r \in Runs :
          (Processed(r) /\ ~runs[r].result.unsubscribe_intent_detected) =>
              /\ runs[r].result.steps = <<"classify", "log">>
              /\ ~runs[r].result.brevo_details.called
              /\ ~runs[r].result.reply_sent
    /\ \A q \in Reqs :
          (Handled(q) /\ ~reqs[q].response.decided) =>
              /\ reqs[q].response.steps = <<"classify", "log">>
              /\ ~reqs[q].response.brevo.called
    /\ \A i \in 1..Len(log) :
          ~log[i].intent_detected =>
              /\ ~log[i].brevo_success
              /\ log[i].brevo_action = Null
              /\ log[i].brevo_message = Null

\* C7 witness: the worker has processed a message without intent and its row
\* is in the log.
C7_Witness ==
    \E r \in Runs :
        /\ Processed(r)
        /\ ~runs[r].result.unsubscribe_intent_detected
        /\ runs[r].result.steps = <<"classify", "log">>
        /\ Len(log) > 0
        /\ ~log[Len(log)].intent_detected
        /\ log[Len(log)].source = "worker"

\* C8: for a worker message with intent whose sender is not yet a contact
\* (suppress returns created), the steps run in the order classify, suppress,
\* optional reply, log, and exactly one ActionRecord append is made for it.
C8_CreatedPathOrderedAndLogged ==
    \A r \in Runs :
        (Processed(r) /\ runs[r].result.brevo_details.action = "created") =>
            /\ runs[r].result.steps \in {<<"classify", "suppress", "reply", "log">>,
                                         <<"classify", "suppress", "log">>}
            /\ runs[r].result.brevo_details.success
            /\ runs[r].result.appends = 1

\* C9 as stated: when a call of unsubscribe_contact returned created, the
\* next call on the same address returns updated.
C9_SecondCallUpdated ==
    \A a \in Addrs : lastTwo[a][1] = "created" => lastTwo[a][2] = "updated"

\* C9 amended: two calls in sequence never give two created outcomes; after
\* a created outcome the next call returns updated, or a failing outcome when
\* the backend rejects it; the address has one contact, marked suppressed.
C9_NoSecondCreate ==
    \A a \in Addrs :
        /\ createCount[a] <= 1
        /\ lastTwo[a][1] = "created" => lastTwo[a][2] \in {"updated", "failed"}
        /\ lastTwo[a][2] = "created" => lastTwo[a][1] # "created"
        /\ createCount[a] = 1 => (a \in contacts /\ a \in blacklisted)

\* C9 witness: a call returned created and the next call on the same address
\* returned updated.
C9_Witness ==
    \E a \in Addrs : lastTwo[a] = <<"created", "updated">> /\ createCount[a] = 1

\* C10: every outcome of unsubscribe_contact carries an action; a failing
\* outcome has action "failed", and so has the ActionRecord of a failed
\* suppression.
C10_FailedOutcomeHasAction ==
    /\ \A r \in Runs :
          (Processed(r) /\ runs[r].result.brevo_details.called) =>
              (runs[r].result.brevo_details.success
                  <=> runs[r].result.brevo_details.action \in {"created", "updated"})
              /\ (~runs[r].result.brevo_details.success
                  => runs[r].result.brevo_details.action = "failed")
    /\ \A i \in 1..Len(log) :
          (log[i].intent_detected /\ ~log[i].brevo_success) =>
              log[i].brevo_action = "failed"

\* C11: a failure of the suppression backend is returned by
\* unsubscribe_contact as an outcome with success=false and a message, never
\* raised; the pipeline result then reports suppression not successful and no
\* error, the append is made, and the row stored for the message has
\* intent_detected=true and suppression_success=false.
C11_SuppressionFailureIsOutcome ==
    /\ \A r \in Runs :
          (/\ Processed(r)
           /\ runs[r].result.brevo_details.called
           /\ ~runs[r].result.brevo_details.success) =>
              /\ runs[r].result.brevo_details.message # Null
              /\ runs[r].result.unsubscribe_intent_detected
              /\ ~runs[r].result.unsubscribed_from_brevo
              /\ ~runs[r].result.error
              /\ ~Has(runs[r].result.steps, "reply")
              /\ runs[r].result.appends = 1
              /\ runs[r].result.logged =>
                    \E i \in 1..Len(log) :
                        /\ log[i].email = runs[r].emails[runs[r].idx].sender
                        /\ log[i].source = "worker"
                        /\ log[i].intent_detected
                        /\ ~log[i].brevo_success
                        /\ log[i].brevo_message = runs[r].result.brevo_details.message
    /\ \A q \in Reqs :
          (/\ Handled(q)
           /\ reqs[q].response.brevo.called
           /\ ~reqs[q].response.brevo.success) =>
              /\ reqs[q].response.brevo.message # Null
              /\ ~reqs[q].response.unsubscribed_from_brevo
              /\ reqs[q].response.appends = 1
              /\ reqs[q].response.logged =>
                    \E i \in 1..Len(log) :
                        /\ log[i].email = reqs[q].msg.sender
                        /\ log[i].source = "webhook"
                        /\ log[i].intent_detected
                        /\ ~log[i].brevo_success
                        /\ log[i].brevo_message = reqs[q].response.brevo.message

\* C11 witness: the worker processed a message whose suppression call was
\* rejected by the backend, and the row of that message is stored.
C11_Witness ==
    \E r \in Runs :
        /\ Processed(r)
        /\ runs[r].result.brevo_details.called
        /\ ~runs[r].result.brevo_details.success
        /\ runs[r].result.logged
        /\ \E i \in 1..Len(log) :
              log[i].source = "worker" /\ log[i].intent_detected /\ ~log[i].brevo_success

\* The decision of the call of detect_intent on its own, once it is made.
Decided == intent_call.decision.reasoning # Null

\* The text contains one of the fallback keywords, whatever the case of its
\* letters.
ContainsKeywordIgnoringCase(text) ==
    \E keyword \in unsubscribe_keywords :
        \E i \in 1..Len(text) :
            /\ i + Len(keyword) - 1 <= Len(text)
            /\ \A j \in 1..Len(keyword) : Lower(text[i + j - 1]) = keyword[j]

\* C12: when the classification backend is unavailable (the call errors or
\* its output cannot be parsed), detect_intent returns has_intent=true with
\* confidence=medium for a text that contains, case-insensitively, a fallback
\* keyword, and has_intent=false with confidence=low for any other text.
C12_FallbackByKeyword ==
    (Decided /\ intent_call.response.kind \in {"error", "nonjson"}) =>
        IF ContainsKeywordIgnoringCase(intent_call.message_text)
          THEN /\ intent_call.decision.has_unsubscribe_intent = TRUE
               /\ intent_call.decision.confidence = "medium"
          ELSE /\ intent_call.decision.has_unsubscribe_intent = FALSE
               /\ intent_call.decision.confidence = "low"

\* C12 witness: the call errored on a text with a keyword in other case, and
\* the decision is has_intent=true, medium.
C12_Witness ==
    /\ Decided
    /\ intent_call.response.kind = "error"
    /\ intent_call.message_text = <<"hello", "Opt", "OUT">>
    /\ intent_call.decision.has_unsubscribe_intent = TRUE
    /\ intent_call.decision.confidence = "medium"

\* The LLM result cannot be used: no JSON object, or a field of a wrong type.
Unusable(resp) ==
    resp.kind # "json" \/ resp.hi = "invalid" \/ resp.conf = "wrongtype"

\* C13: detect_intent never raises: for every backend behaviour it returns a
\* decision with a boolean has_intent and a confidence string, and it uses
\* the keyword fallback whenever the backend output cannot be used.
C13_NeverRaises ==
    Decided =>
        /\ intent_call.decision.reasoning # "raised"
        /\ intent_call.decision.has_unsubscribe_intent \in BOOLEAN
        /\ intent_call.decision.confidence \notin {Null, "missing", "wrongtype"}
        /\ Unusable(intent_call.response) =>
              /\ intent_call.decision.reasoning = "fallback"
              /\ intent_call.decision.has_unsubscribe_intent
                    = ContainsKeywordIgnoringCase(intent_call.message_text)

\* C13 witness: the backend returned JSON that is no object, and the decision
\* is the fallback one.
C13_Witness ==
    /\ Decided
    /\ intent_call.response.kind = "nonobject"
    /\ intent_call.decision.reasoning = "fallback"
    /\ intent_call.decision.has_unsubscribe_intent \in BOOLEAN

\* C14: the confidence of every decision of detect_intent, and so the
\* intent_confidence of the ActionRecord made from it, is one of high,
\* medium, low, whatever the backend returned in its confidence field.
C14_ConfidenceEnumerated ==
    Decided =>
        /\ intent_call.decision.confidence \in {"high", "medium", "low"}
        /\ log_unsubscribe_action("a1", intent_call.decision.has_unsubscribe_intent,
               FALSE, intent_call.decision.confidence, Null, Null, "worker"
               ).intent_confidence \in {"high", "medium", "low"}

\* C15: a decision with confidence=low has has_intent=false, and neither
\* pipeline calls the suppression sink for it.
C15_LowConfidenceNoSuppression ==
    (Decided /\ intent_call.decision.confidence = "low") =>
        /\ intent_call.decision.has_unsubscribe_intent = FALSE
        /\ ~WorkerSuppresses(intent_call.decision)
        /\ ~WebhookSuppresses(intent_call.decision)

\* C16: start() on a Running worker is a no-op: no connectivity check, no
\* additional job, no check_emails run, and the worker stays Running.
C16_StartWhileRunningNoOp ==
    [][(lastOp'.op = "start" /\ is_running) =>
          /\ is_running'
          /\ scheduler' = scheduler
          /\ runs' = runs /\ nruns' = nruns
          /\ unread' = unread /\ log' = log
          /\ lastOp'.conn = Null
          /\ ~lastOp'.began]_vars

\* C16 witness: start() was called on a Running worker.
C16_Witness ==
    lastOp.op = "start" /\ lastOp.pre_running /\ is_running /\ scheduler.jobs = 1

\* C17: stop() on a Stopped worker changes nothing; stop() on a Running
\* worker shuts the scheduler down and makes the worker Stopped; a scheduled
\* check_emails run begins only on a Running worker, and only start() makes
\* the worker Running again.
C17_StopCancelsSchedule ==
    [][/\ (lastOp'.op = "stop" /\ ~is_running) =>
             UNCHANGED <<is_running, scheduler, runs, nruns, unread, log>>
       /\ (lastOp'.op = "stop" /\ is_running) =>
             (~is_running' /\ ~scheduler'.running)
       /\ ~is_running' => ~scheduler'.running
       /\ lastOp'.op = "fire" => (is_running /\ scheduler.running)
       /\ (\E r \in Runs : runs[r].origin # "scheduler" /\ runs'[r].origin = "scheduler")
             => (lastOp'.op = "fire" /\ is_running)
       /\ (~is_running /\ is_running') => lastOp'.op = "start"]_vars

\* C17 witness: stop() was called on a Running worker with its job registered.
C17_Witness ==
    lastOp.op = "stop" /\ lastOp.pre_running /\ ~is_running /\ scheduler.jobs = 1

\* C18: stop() does not interrupt a check_emails batch in progress: every
\* batch in flight when stop() is called goes on as it was.
C18_StopKeepsBatch ==
    [][lastOp'.op = "stop" =>
          \A r \in Runs : InFlight(r) => runs'[r] = runs[r]]_vars

\* C19: a successful start() registers the recurring job at the configured
\* interval, makes the worker Running and begins exactly one check_emails run
\* in the same step, without waiting for the interval; that run is start()'s
\* own and no stop() cuts it.
C19_StartRunsOnce ==
    [][/\ (lastOp'.op = "start" /\ lastOp'.began) =>
             /\ ~is_running /\ is_running'
             /\ scheduler'.running /\ scheduler'.jobs = 1
             /\ scheduler'.interval = settings.imap_check_interval
             /\ nruns' = nruns + 1
             /\ \A r \in Runs \ {nruns'} : runs'[r] = runs[r]
             /\ runs'[nruns'].pc \in {"classify", "done"}
             /\ runs'[nruns'].pc = "classify" => runs'[nruns'].origin = "start"
       /\ \A r \in Runs :
             (InFlight(r) /\ runs[r].origin = "start") =>
                 runs'[r].pc \in {"classify", "sleep", "done"}]_vars

\* C19 witness: start() succeeded and its own run is in flight.
C19_Witness ==
    /\ lastOp.op = "start" /\ lastOp.began /\ is_running
    /\ \E r \in Runs : runs[r].origin = "start" /\ runs[r].pc = "classify"

\* C20: with polling disabled, start() leaves the worker Stopped with no job
\* and makes no connectivity check, and check_emails() fetches nothing,
\* begins no run and writes no ActionRecord.
C20_DisabledDoesNothing ==
    [][~settings.imap_enabled =>
          /\ ~is_running' /\ ~scheduler'.running /\ scheduler'.jobs = 0
          /\ nruns' = nruns /\ runs' = runs
          /\ \A i \in 1..Len(log') : log'[i].source # "worker"
          /\ lastOp'.op \in {"start", "check_emails", "check-now"} =>
                /\ unread' = unread
                /\ log' = log
                /\ lastOp'.conn = Null
                /\ ~lastOp'.began]_vars

\* C20 witness: start() was called with polling disabled and mail waiting.
C20_Witness ==
    /\ ~settings.imap_enabled
    /\ lastOp.op = "start"
    /\ unread # <<>>
    /\ ~is_running

\* C21: within one batch the messages are processed one at a time, in the
\* order of the fetched list: the pipeline runs for the message the loop
\* is at, its log write is part of that step, the loop moves to the next
\* message only after the pipeline has returned, and the batch does not
\* change while the run is in flight.
C21_SequentialInFetchOrder ==
    [][\A r \in Runs :
        /\ (InFlight(r) /\ runs'[r].pc \in {"classify", "sleep"})
              => runs'[r].emails = runs[r].emails
        /\ (runs'[r].idx # runs[r].idx) =>
              \/ runs[r].pc \in {"idle"} /\ runs'[r].idx = 1
              \/ /\ runs[r].pc = "sleep" /\ runs'[r].pc = "classify"
                 /\ runs'[r].idx = runs[r].idx + 1
                 /\ log' = log
              \/ runs'[r].pc \in {"done", "cancelled"} /\ runs'[r].idx = 0
        /\ (runs[r].pc = "classify" /\ runs'[r].pc = "sleep") =>
              /\ runs'[r].idx = runs[r].idx
              /\ runs'[r].result.email_data = runs[r].emails[runs[r].idx]
              /\ IF runs'[r].result.logged
                   THEN /\ Len(log') = Len(log) + 1
                        /\ SubSeq(log', 1, Len(log)) = log
                        /\ log'[Len(log')].email = runs[r].emails[runs[r].idx].sender
                        /\ log'[Len(log')].source = "worker"
                   ELSE log' = log
      ]_vars

\* C21 witness: a run has processed and logged the second of two different
\* messages of its batch, after the first.
C21_Witness ==
    \E r \in Runs :
        /\ Processed(r) /\ runs[r].idx = 2
        /\ runs[r].emails[1] # runs[r].emails[2]
        /\ runs[r].result.email_data = runs[r].emails[2]
        /\ runs[r].result.logged
        /\ Len(log) >= 2

\* C22: a check_emails run whose fetch fails on a connection or
\* authentication error ends there: it processes no message and writes no
\* row, it returns instead of raising, the worker and its scheduler stay
\* as they are (running, when start() made the run), and the interval job
\* is still registered and can fire again.
C22_FetchFailureEndsRunOnly ==
    [][lastOp'.fetch = "failed" =>
         /\ nruns' = nruns + 1
         /\ runs'[nruns'].pc = "done"
         /\ \A r \in Runs \ {nruns'} : runs'[r] = runs[r]
         /\ log' = log /\ contacts' = contacts /\ blacklisted' = blacklisted
         /\ lastOp'.op \in {"fire", "check-now"} =>
               is_running' = is_running /\ scheduler' = scheduler
         /\ lastOp'.op = "start" =>
               is_running' /\ scheduler'.running /\ scheduler'.jobs = 1
         /\ lastOp'.op = "fire" => is_running' /\ JobDue'
      ]_vars

\* C22 witness: the interval job has fired on a running worker, messages
\* were waiting, the IMAP fetch failed and the run is over.
C22_Witness ==
    /\ lastOp.op = "fire" /\ lastOp.fetch = "failed"
    /\ ~settings.use_graph_api
    /\ unread # <<>>
    /\ is_running /\ JobDue
    /\ runs[nruns].pc = "done"

\* C23: /worker/start answers success exactly when the call took the worker
\* from Stopped to Running, and /worker/stop answers success exactly when
\* the call stopped a running worker.
C23_ControlReportsTransition ==
    /\ lastOp.op = "start" => (start_worker.success <=> lastOp.began)
    /\ lastOp.op = "stop" => (stop_worker.success <=> lastOp.pre_running)

\* C24: for every integer N, GET /blocklist/recent with limit=N returns at
\* most min(N, 500) records (none when N is zero or negative), in strictly
\* descending creation time.
C24_RecentBoundedAndOrdered ==
    db_call.op = "recent" =>
        LET logs == db_call.rows
            cap == IF db_call.limit > MaxLimit THEN MaxLimit ELSE db_call.limit
        IN  /\ Len(logs) <= IF cap < 0 THEN 0 ELSE cap
            /\ \A i \in 1..(Len(logs) - 1) :
                  logs[i].created_at > logs[i + 1].created_at

\* C25: the snippet stored in every record has at most 200 characters
\* whatever the length of the body; a truncated snippet ends with the
\* ellipsis and is still within 200 characters.
C25_SnippetWithinBound ==
    /\ \A i \in 1..Len(log) :
          log[i].email_snippet # None => Len(log[i].email_snippet) <= SnippetChars
    /\ (db_call.op = "log" /\ db_call.status = 200
          /\ Len(db_call.message_text) > SnippetChars) =>
          LET s == db_call.rows[1].email_snippet
          IN  /\ Len(s) <= SnippetChars
              /\ SubSeq(s, Len(s) - Len(Ellipsis) + 1, Len(s)) = Ellipsis

\* C26: the statistics satisfy no_intent_detected + intent_detected_count =
\* total_processed and successfully_blocklisted <= intent_detected_count,
\* and total_processed is the number of records written.
C26_StatsConsistent ==
    db_call.op = "stats" =>
        LET stats == db_call.stats
        IN  /\ stats.no_intent_detected + stats.intent_detected_count
                  = stats.total_processed
            /\ stats.successfully_blocklisted <= stats.intent_detected_count
            /\ stats.successfully_blocklisted + stats.failed_blocklist
                  = stats.intent_detected_count
            /\ stats.total_processed = Len(log)
            /\ log # <<>> => stats.total_processed = log[Len(log)].id

\* C26 witness: the statistics of a log of two records, one without intent
\* and one with intent whose suppression failed.
C26_Witness ==
    /\ db_call.op = "stats"
    /\ db_call.stats.total_processed = 2
    /\ db_call.stats.no_intent_detected = 1
    /\ db_call.stats.failed_blocklist = 1
    /\ db_call.stats.successfully_blocklisted = 0

\* C27: every read of the log (list all, list recent, find by address,
\* export) called without asking for all rows returns only records with
\* intent detected and suppression succeeded.
C27_ReadsDefaultSuccessfulOnly ==
    (\/ db_call.op \in {"recent", "search"}
     \/ db_call.op \in {"all", "export"} /\ db_call.given = "default") =>
        \A i \in 1..Len(db_call.rows) : Blocklisted(db_call.rows[i])

\* C28 as stated: a record written with address a comes back from
\* search_by_email(a) with every field equal to the value passed to the
\* write, the body included, except the id and the timestamp.
C28_RoundTripVerbatim ==
    (db_call.op = "log" /\ db_call.status = 200) =>
        \A results \in search_by_email(db_call.email) :
            \E i \in 1..Len(results) :
                /\ results[i].id = db_call.rows[1].id
                /\ \A k \in DOMAIN db_call.columns :
                      results[i][k] = db_call.columns[k]
                /\ results[i].email_snippet = db_call.message_text

\* C28: a record written with address a comes back from search_by_email(a)
\* with every column equal to the value passed to the write, and with the
\* snippet of the body that was passed (the body itself when it has 1 to
\* 200 characters); a search returns every stored record whose address
\* contains the argument, with the values that are stored.
C28_RoundTripWithSnippet ==
    /\ (db_call.op = "log" /\ db_call.status = 200) =>
          \A results \in search_by_email(db_call.email) :
              \E i \in 1..Len(results) :
                  /\ results[i].id = db_call.rows[1].id
                  /\ \A k \in DOMAIN db_call.columns :
                        results[i][k] = db_call.columns[k]
                  /\ results[i].email_snippet = email_snippet(db_call.message_text)
                  /\ (Len(db_call.message_text) \in 1..SnippetChars) =>
                        results[i].email_snippet = db_call.message_text
    /\ db_call.op = "search" =>
          \A i \in 1..Len(log) :
              Like(db_call.email, log[i].email) =>
                  \E j \in 1..Len(db_call.rows) :
                      \A k \in DOMAIN log[i] : db_call.rows[j][k] = log[i][k]

\* C28 witness: a search by an address returns two records written with it,
\* one of them not blocklisted, one with a body that was cut.
C28_Witness ==
    /\ db_call.op = "search"
    /\ Len(db_call.rows) = 2
    /\ \A j \in 1..2 : db_call.rows[j].email = db_call.email
    /\ \E j \in 1..2 : ~Blocklisted(db_call.rows[j])
    /\ \E j \in 1..2 : Len(db_call.rows[j].email_snippet) > SnippetChars

\* C29: POST /blocklist/clear succeeds on any state of the log, removes
\* every record and answers with their number; afterwards the log is empty
\* and the statistics count no record.
C29_ClearEmptiesLog ==
    db_call.op = "clear" =>
        /\ db_call.status = 200
        /\ log = <<>>
        /\ get_blocklist_stats.total_processed = 0
        /\ \A limit \in Limits : get_recent_logs(limit) = {<<>>}

\* C30: apart from clear_all the log is append-only: no step removes or
\* changes a record written before, a write adds one record at the end,
\* its id is larger than every id assigned before and its timestamp is the
\* time of the write.
C30_AppendOnly ==
    [][db_call'.op # "clear" =>
         /\ Len(log') >= Len(log)
         /\ SubSeq(log', 1, Len(log)) = log
         /\ Len(log') > Len(log) =>
               /\ Len(log') = Len(log) + 1
               /\ db_call'.op = "log"
               /\ \A i \in 1..Len(log) : log[i].id < log'[Len(log')].id
               /\ log'[Len(log')].created_at = now
               /\ now' = now
      ]_vars

\* C30 witness: a second record has been written, later than the first,
\* and the first is still there.
C30_Witness ==
    /\ db_call.op = "log" /\ db_call.status = 200
    /\ Len(log) = 2
    /\ log[1].id < log[2].id
    /\ log[1].created_at < log[2].created_at
    /\ log[2].created_at = now

\* A message of the server that can be read out and has a sender and a body.
Deliverable(raw) == ~raw.broken /\ raw.sender # "" /\ raw.message_text # <<>>

\* C31: with either mail source, a fetch that fails on a connection or
\* authentication error tells its caller so, unlike a fetch that succeeds
\* with an empty batch; a failure on one message drops only that message,
\* the other messages that were found are returned.
C31_FetchFailureSignalled ==
    /\ fetch_call.op = "fetch-failed" => fetch_call.raised
    /\ fetch_call.op = "fetch" =>
          /\ ~fetch_call.raised
          /\ \A i \in 1..Len(fetch_call.found) :
                Deliverable(fetch_call.found[i]) =>
                    \E j \in 1..Len(fetch_call.emails) :
                        /\ fetch_call.emails[j].sender = fetch_call.found[i].sender
                        /\ fetch_call.emails[j].message_text
                              = fetch_call.found[i].message_text
          /\ Len(fetch_call.emails) >=
                Cardinality({i \in 1..Len(fetch_call.found) :
                                Deliverable(fetch_call.found[i])})

\* C32: after an IMAP fetch no message that the search found is left
\* unseen, also when reading a message out failed; such a failure skips
\* that message only, and the messages after it are extracted in order.
C32_EveryFoundMessageSeen ==
    (fetch_call.op = "fetch" /\ ~settings.use_graph_api) =>
        /\ unread = <<>>
        /\ fetch_call.emails =
              imap_emails(SelectSeq(fetch_call.found, LAMBDA raw : ~raw.broken))

\* C33: a failure of the log write changes nothing else.  The worker
\* result of a message whose write failed has no error and is, apart from
\* the row, the result that the same call returns when the write succeeds;
\* so is the webhook response; and the run goes on with the next message.
C33_LogFailureKeepsResult ==
    [][/\ \A r \in Runs :
            /\ (/\ runs[r].pc = "classify" /\ runs'[r].pc = "sleep"
                /\ ~runs'[r].result.logged /\ ~runs'[r].result.error) =>
                  /\ runs'[r].result.appends = 1
                  /\ log' = log
                  /\ \E resp \in LLMResponses, fault \in Faults, replyOK \in BOOLEAN :
                        LET ok == process_email(email_data(r), resp, fault, replyOK, TRUE)
                        IN  /\ ok.result.logged
                            /\ runs'[r].result = [ok.result EXCEPT !.logged = FALSE]
                            /\ contacts' = contacts \cup
                                  (IF ok.brevo.effect = "create"
                                     THEN {email_data(r).sender} ELSE {})
            /\ (runs[r].pc = "classify" /\ runs'[r].pc = "sleep") =>
                  \E resp \in LLMResponses, fault \in Faults, replyOK \in BOOLEAN :
                        LET ok == process_email(email_data(r), resp, fault, replyOK, TRUE)
                        IN  runs'[r].result =
                              [ok.result EXCEPT !.logged = runs'[r].result.logged]
            /\ (/\ runs[r].pc = "sleep" /\ ~runs[r].result.logged
                /\ runs[r].idx < Len(runs[r].emails) /\ runs'[r] # runs[r]) =>
                  \/ runs'[r].pc = "classify" /\ runs'[r].idx = runs[r].idx + 1
                  \/ runs'[r].pc = "cancelled"
       /\ \A q \in Reqs :
            (/\ reqs[q].pc = "classify" /\ reqs'[q].pc = "done"
             /\ ~reqs'[q].response.logged) =>
                  /\ log' = log
                  /\ \E resp \in LLMResponses, fault \in Faults, replyOK \in BOOLEAN :
                        LET ok == process_inbound_email(reqs[q].msg, resp, fault,
                                                        replyOK, TRUE)
                        IN  /\ ok.response.logged
                            /\ reqs'[q].response =
                                  [ok.response EXCEPT !.logged = FALSE]
      ]_vars

\* C33 witness: an IMAP run is at the second message of its batch and has
\* logged it, after a first message that was suppressed and whose log write
\* failed.
C33_Witness ==
    /\ ~settings.use_graph_api /\ nruns = 1 /\ nreqs = 0
    /\ Processed(1) /\ runs[1].idx = 2
    /\ runs[1].result.logged
    /\ Len(log) = 1
    /\ blacklisted # {}

\* C34: a message that a fetch returns is not returned by a later fetch:
\* when a run starts with a batch, no message of the batch is still unread
\* after the fetch.
C34_HandedOverOnce ==
    [][\A r \in Runs :
          (runs[r].pc = "idle" /\ runs'[r].pc = "classify") =>
              \A i \in 1..Len(runs'[r].emails) : ~Has(unread', runs'[r].emails[i])
      ]_vars

\* C35: is_running is true exactly when the scheduler is running with its
\* one recurring job; the scheduler never holds more than one job, and no
\* job is active while the worker is stopped.
C35_RunningIffOneActiveJob ==
    /\ scheduler.jobs \in {0, 1}
    /\ is_running <=> (scheduler.running /\ scheduler.jobs = 1)
    /\ ~is_running => ~JobDue

\* C35 witness: a running worker was stopped: its job is still registered,
\* the scheduler is shut down and the worker is stopped.
C35_Witness ==
    /\ lastOp.op = "stop" /\ lastOp.pre_running
    /\ ~is_running /\ ~scheduler.running /\ scheduler.jobs = 1

\* C36: whatever else is in flight, an execution that detected intent and
\* whose suppression succeeded leaves exactly one contact for the sender,
\* created at most once and marked suppressed, and attempts its own row,
\* which is appended unless the write itself fails.
C36_OneContactOneRowEach ==
    [][/\ \A r \in Runs :
            (/\ runs[r].pc = "classify" /\ runs'[r].pc = "sleep"
             /\ runs'[r].result.unsubscribe_intent_detected
             /\ runs'[r].result.unsubscribed_from_brevo) =>
                 /\ email_data(r).sender \in contacts' \cap blacklisted'
                 /\ createCount'[email_data(r).sender] <= 1
                 /\ runs'[r].result.appends = 1
                 /\ runs'[r].result.logged => Len(log') = Len(log) + 1
       /\ \A q \in Reqs :
            (/\ reqs[q].pc = "classify" /\ reqs'[q].pc = "done"
             /\ reqs'[q].response.unsubscribe_intent_detected
             /\ reqs'[q].response.unsubscribed_from_brevo) =>
                 /\ reqs[q].msg.sender \in contacts' \cap blacklisted'
                 /\ createCount'[reqs[q].msg.sender] <= 1
                 /\ reqs'[q].response.appends = 1
                 /\ reqs'[q].response.logged => Len(log') = Len(log) + 1
      ]_vars

\* C37: a call of unsubscribe_contact whose lookup fails with an error other
\* than not-found returns a failed outcome and makes neither the create nor
\* the update call: the contacts of the account and their suppression are
\* what they were before the call.
C37_LookupErrorChangesNothing ==
    [][(brevo_call'.n = brevo_call.n + 1 /\ brevo_call'.fault = "lookup") =>
          /\ brevo_call'.outcome.called
          /\ ~brevo_call'.outcome.success
          /\ brevo_call'.outcome.effect = "none"
          /\ contacts' = contacts
          /\ blacklisted' = blacklisted
          /\ createCount' = createCount
      ]_vars

\* C37 witness: the lookup of a contact that the account holds unsuppressed
\* failed, and the contact is still unsuppressed.
C37_Witness ==
    /\ brevo_call.fault = "lookup"
    /\ brevo_call.contact_exists
    /\ ~brevo_call.outcome.success
    /\ brevo_call.email \in contacts \ blacklisted

\* C38: every message that a fetch returns has a non-empty body and a
\* non-empty sender, which is the sender of a message that the fetch found
\* with this body.
C38_SenderAndBodyRequired ==
    \A j \in 1..Len(fetch_call.emails) :
        /\ fetch_call.emails[j].sender # ""
        /\ fetch_call.emails[j].message_text # <<>>
        /\ \E i \in 1..Len(fetch_call.found) :
              /\ fetch_call.found[i].sender = fetch_call.emails[j].sender
              /\ fetch_call.found[i].message_text = fetch_call.emails[j].message_text

\* C39: when the text of the LLM result, with or without text before or
\* after it, holds a JSON object between its first "{" and its last "}",
\* detect_intent returns the decision of that object; it falls back to the
\* keywords only when that substring is no JSON object.
C39_ObjectCutOutOfExtraText ==
    intent_call.decision.reasoning # Null =>
        LET stripped == strip(intent_call.result_text)
            start_idx == find(stripped, "{")
            end_idx == rfind(stripped, "}")
            object == json_loads(SubSeq(stripped, start_idx + 1, end_idx + 1))
        IN  IF start_idx # -1 /\ end_idx # -1 /\ object.kind = "json"
              THEN intent_call.decision
                     = detect_intent(intent_call.message_text, object)
              ELSE intent_call.decision.reasoning = "fallback"

\* C40: in every record that a pipeline wrote, the suppression succeeded
\* only if intent was detected, and the record has a suppression action or
\* message only if intent was detected; so the statistics of the log count
\* every record with intent as blocklisted or as failed, and the counts by
\* source add up to the number of records.
C40_SuppressionFieldsOnlyWithIntent ==
    /\ \A i \in 1..Len(log) :
          /\ log[i].brevo_success => log[i].intent_detected
          /\ log[i].brevo_action # Null => log[i].intent_detected
          /\ log[i].brevo_message # Null => log[i].intent_detected
          /\ log[i].source \in {"worker", "webhook"}
    /\ LET stats == get_blocklist_stats
           by_source(src) == IF src \in DOMAIN stats.source_breakdown
                               THEN stats.source_breakdown[src] ELSE 0
       IN  /\ stats.successfully_blocklisted + stats.failed_blocklist
                 = stats.intent_detected_count
           /\ stats.successfully_blocklisted
                 = Cardinality({i \in 1..Len(log) : log[i].brevo_success})
           /\ by_source("worker") + by_source("webhook") = stats.total_processed

\* C40 witness: the log holds a record of each pipeline, one without intent
\* and one with intent whose suppression failed.
C40_Witness ==
    /\ Len(log) = 2
    /\ log[1].source # log[2].source
    /\ \E i \in 1..2 : ~log[i].intent_detected /\ log[i].brevo_message = Null
    /\ \E i \in 1..2 : /\ log[i].intent_detected /\ ~log[i].brevo_success
                       /\ log[i].brevo_message # Null

====
